---- MODULE Spec2Model ----
(***************************************************************************)
(* A model of the RAG core of chatbot-streamlit-RAG:                       *)
(*   src/vector_database.py   VectorDatabase (ChromaDB collection wrapper) *)
(*   src/rag_chatbot_app.py   upload handler (duplicate filter), chat turn *)
(*                                                                         *)
(* Strings are TLA+ strings; Len, SubSeq and \o act on them character by   *)
(* character, so the context string is built and cut exactly as the code   *)
(* builds and cuts it.  Texts and context budgets are scaled down (chunks  *)
(* of a few characters, budgets of tens of characters).                    *)
(***************************************************************************)
EXTENDS Integers, Sequences, FiniteSets, TLC

\* ------------------------------------------------------------------ bounds

\* most uuids ever generated (documents ever handed to collection.add)
MaxUuids == 2
\* longest list of documents passed to one add_documents call
MaxBatch == 2
\* most entries of a collection that retrieval starts from (InitRetrieval)
MaxStored == 3
\* most uuids ever generated by the sessions that run side by side
MaxSessionUuids == 3

\* ------------------------------------------------------------- sequences

Range(s) == {s[i] : i \in 1..Len(s)}

Min(a, b) == IF a <= b THEN a ELSE b

SeqsUpTo(S, n) == UNION {[1..k -> S] : k \in 0..n}

RECURSIVE SumSeq(_)
SumSeq(s) == IF Len(s) = 0 THEN 0 ELSE Head(s) + SumSeq(Tail(s))

\* ----------------------------------------------------------------- strings

\* s[a:b] of Python for 0 <= a and 0 <= b (characters a .. b-1, counted from 0)
Slice(s, a, b) == SubSeq(s, a + 1, Min(b, Len(s)))

CharAt(s, i) == SubSeq(s, i, i)

IsSpace(c) == c \in {" ", "\n", "\t"}

RECURSIVE LStrip(_)
LStrip(s) ==
    IF Len(s) > 0 /\ IsSpace(CharAt(s, 1))
    THEN LStrip(SubSeq(s, 2, Len(s)))
    ELSE s

RECURSIVE RStrip(_)
RStrip(s) ==
    IF Len(s) > 0 /\ IsSpace(CharAt(s, Len(s)))
    THEN RStrip(SubSeq(s, 1, Len(s) - 1))
    ELSE s

\* str.strip()
Strip(s) == RStrip(LStrip(s))

\* str(i) for the chunk indices of the model
ToStr(i) ==
    CASE i = 0 -> "0"
      [] i = 1 -> "1"
      [] i = 2 -> "2"
      [] i = 3 -> "3"
      [] OTHER -> "9"

\* sep.join(parts)
RECURSIVE Join(_, _)
Join(parts, sep) ==
    IF Len(parts) = 0 THEN ""
    ELSE IF Len(parts) = 1 THEN parts[1]
    ELSE parts[1] \o sep \o Join(Tail(parts), sep)

StartsWith(s, p) == Len(p) <= Len(s) /\ SubSeq(s, 1, Len(p)) = p

EndsWith(s, p) ==
    Len(p) <= Len(s) /\ SubSeq(s, Len(s) - Len(p) + 1, Len(s)) = p

\* dict.get(key, default)
MetaGet(m, k, default) == IF k \in DOMAIN m THEN m[k] ELSE default

\* ---------------------------------------------------------------- embedder

\* the sentence-transformer models an instance can be built with
EmbeddingModels == {"all-MiniLM-L6-v2", "all-mpnet-base-v2"}

\* output dimensionality of a model, scaled down (384 and 768 in the artifacts)
Dimension(model) == IF model = "all-MiniLM-L6-v2" THEN 1 ELSE 2

\* the tokenizers of both models lower-case the text: a letter and its capital
\* have the same code
CharCode(c) ==
    CASE c = "a" -> 1
      [] c = "A" -> 1
      [] c = "b" -> 3
      [] c = "c" -> 6
      [] c = " " -> 2
      [] OTHER -> 9

RECURSIVE TextCode(_)
TextCode(t) ==
    IF Len(t) = 0 THEN 0
    ELSE CharCode(CharAt(t, 1)) + TextCode(SubSeq(t, 2, Len(t)))

\* SentenceTransformer.encode of one text: a fixed-length vector that is a
\* function of the model and the text alone
encode(model, text) ==
    [i \in 1..Dimension(model) |-> IF i = 1 THEN TextCode(text) ELSE Len(text)]

\* ------------------------------------------------------- ChromaDB collection

Faults == {"none", "embedding", "storage"}

CollectionNames == {"rag_chatbot_docs", "test_collection"}

\* a collection of the persist directory that was never created, or was deleted
NoCollection == [exists |-> FALSE, entries |-> <<>>, dimension |-> 0]

\* create_collection: a collection with no entry and no dimensionality yet
EmptyCollection == [exists |-> TRUE, entries |-> <<>>, dimension |-> 0]

Ids(coll) == {coll.entries[i].id : i \in 1..Len(coll.entries)}

\* squared L2 distance, the default space of a collection
Distance(u, v) == SumSeq([i \in 1..Len(u) |-> (u[i] - v[i]) * (u[i] - v[i])])

\* collection.add(ids, embeddings, documents, metadatas): one call that
\* validates the whole batch and then stores every row of it, or raises
collection_add(coll, ids, embeddings, texts, metadatas, fault) ==
    IF \/ fault = "storage"
       \/ ~coll.exists
       \/ \E i \in 1..Len(embeddings) :
             coll.dimension # 0 /\ Len(embeddings[i]) # coll.dimension
       \/ \E i \in 1..Len(ids) : ids[i] \in Ids(coll)
    THEN [raised |-> TRUE, coll |-> coll]
    ELSE [raised |-> FALSE,
          coll |-> [coll EXCEPT
                      !.entries = coll.entries \o
                          [i \in 1..Len(ids) |->
                              [id |-> ids[i], embedding |-> embeddings[i],
                               document |-> texts[i], metadata |-> metadatas[i]]],
                      !.dimension = Len(embeddings[1])]]

\* the positions of the entries in insertion order, whatever the distances
RECURSIVE NearestUnranked(_, _, _)
NearestUnranked(entries, qvec, left) ==
    IF left = {} THEN <<>>
    ELSE LET first == CHOOSE i \in left : \A j \in left : i <= j
         IN  <<first>> \o NearestUnranked(entries, qvec, left \ {first})

\* positions of the entries, nearest first; equal distances keep insertion order
RECURSIVE Nearest(_, _, _)
Nearest(entries, qvec, left) ==
    IF left = {} THEN <<>>
    ELSE LET best == CHOOSE i \in left : \A j \in left :
                        \/ Distance(qvec, entries[i].embedding)
                              < Distance(qvec, entries[j].embedding)
                        \/ /\ Distance(qvec, entries[i].embedding)
                                = Distance(qvec, entries[j].embedding)
                           /\ i <= j
         IN  <<best>> \o Nearest(entries, qvec, left \ {best})

\* Optional[Dict]: None, or a dict
NoWhere == [none |-> TRUE]

SomeWhere(dict) == [none |-> FALSE, dict |-> dict]

\* the validation of a where filter by the collection: a dict of exactly one
\* key, which is a metadata field or one of the operators $and and $or
ValidWhere(where) ==
    \/ where.none
    \/ /\ Cardinality(DOMAIN where.dict) = 1
       /\ \A k \in DOMAIN where.dict : ~StartsWith(k, "$") \/ k \in {"$and", "$or"}

\* the metadata passes the filter {field: value}
Matches(metadata, where) ==
    \/ where.none
    \/ \A k \in DOMAIN where.dict :
          k \in DOMAIN metadata /\ metadata[k] = where.dict[k]

\* collection.query(query_embeddings, n_results, where, include=[...]): the
\* n_results nearest of the rows that pass the filter (all of them when there
\* are fewer), or raises
collection_query(coll, qvec, n_results, where, fault) ==
    IF \/ fault = "storage"
       \/ ~coll.exists
       \/ n_results <= 0
       \/ coll.dimension # 0 /\ Len(qvec) # coll.dimension
       \/ ~ValidWhere(where)
    THEN [raised |-> TRUE, rows |-> <<>>]
    ELSE LET order == Nearest(coll.entries, qvec,
                              {i \in 1..Len(coll.entries) :
                                  Matches(coll.entries[i].metadata, where)})
             n == Min(n_results, Len(order))
         IN  [raised |-> FALSE,
              rows |-> [i \in 1..n |->
                          [document |-> coll.entries[order[i]].document,
                           metadata |-> coll.entries[order[i]].metadata,
                           distance |-> Distance(qvec, coll.entries[order[i]].embedding)]]]

\* a get that returns one page of a single id
CollectionGetFirstPage(coll, fault) ==
    IF fault = "storage" \/ ~coll.exists
    THEN [raised |-> TRUE, ids |-> {}]
    ELSE [raised |-> FALSE,
          ids |-> IF Len(coll.entries) = 0 THEN {} ELSE {coll.entries[1].id}]

\* collection.get(): every id of the collection, or raises
collection_get(coll, fault) ==
    IF fault = "storage" \/ ~coll.exists
    THEN [raised |-> TRUE, ids |-> {}]
    ELSE [raised |-> FALSE, ids |-> Ids(coll)]

\* collection.delete(ids): removes exactly the rows with these ids
collection_delete(coll, ids) ==
    [coll EXCEPT !.entries = SelectSeq(coll.entries, LAMBDA e : e.id \notin ids)]

\* collection.count()
collection_count(coll) == Len(coll.entries)

\* ----------------------------------------------------------- VectorDatabase

\* a VectorDatabase instance: the collection it is bound to and its embedder
Instance(name, model) == [collection_name |-> name, embedding_model_name |-> model]

\* a constructor that creates the collection without looking for an existing one
InitializeAlwaysCreate(colls, name, fault) ==
    [raised |-> FALSE, colls |-> [colls EXCEPT ![name] = EmptyCollection]]

\* _initialize_chroma_client: get_collection, and create_collection only when
\* get_collection raised; create_collection raises for a name that exists.
\* fault = "storage": get_collection raises although the collection is there.
_initialize_chroma_client(colls, name, fault) ==
    IF colls[name].exists /\ fault = "none"
    THEN [raised |-> FALSE, colls |-> colls]
    ELSE IF colls[name].exists
         THEN [raised |-> TRUE, colls |-> colls]
         ELSE [raised |-> FALSE, colls |-> [colls EXCEPT ![name] = EmptyCollection]]

\* embed_documents: [] for no documents, else one vector per document
embed_documents(db, documents) ==
    [i \in 1..Len(documents) |->
        encode(db.embedding_model_name, documents[i].page_content)]

\* an add_documents that reports success for an empty list
AddDocumentsEmptyOk(db, coll, documents, ids, fault) ==
    IF Len(documents) = 0 \/ fault = "embedding"
    THEN [ret |-> Len(documents) = 0, coll |-> coll]
    ELSE LET added == collection_add(coll, ids, embed_documents(db, documents),
                          [i \in 1..Len(documents) |-> documents[i].page_content],
                          [i \in 1..Len(documents) |-> documents[i].metadata], fault)
         IN  [ret |-> ~added.raised, coll |-> added.coll]

\* an add_documents that stores the documents one collection.add call at a time,
\* so that a storage error after the first call leaves the first row behind
AddDocumentsOneByOne(db, coll, documents, ids, fault) ==
    IF Len(documents) = 0 \/ fault = "embedding"
    THEN [ret |-> FALSE, coll |-> coll]
    ELSE LET first == collection_add(coll, <<ids[1]>>,
                          <<encode(db.embedding_model_name, documents[1].page_content)>>,
                          <<documents[1].page_content>>, <<documents[1].metadata>>,
                          "none")
         IN  IF first.raised \/ fault = "storage"
             THEN [ret |-> FALSE, coll |-> first.coll]
             ELSE LET rest == collection_add(first.coll, Tail(ids),
                                  Tail(embed_documents(db, documents)),
                                  [i \in 1..Len(documents) - 1 |->
                                      documents[i + 1].page_content],
                                  [i \in 1..Len(documents) - 1 |->
                                      documents[i + 1].metadata], "none")
                  IN  IF Len(documents) = 1 THEN [ret |-> TRUE, coll |-> first.coll]
                      ELSE [ret |-> ~rest.raised, coll |-> rest.coll]

\* add_documents(documents) with the uuids it draws; fault = "embedding": encode
\* raises; fault = "storage": collection.add raises
add_documents(db, coll, documents, ids, fault) ==
    IF Len(documents) = 0
    THEN [ret |-> FALSE, coll |-> coll]
    ELSE IF fault = "embedding"
         THEN [ret |-> FALSE, coll |-> coll]
         ELSE LET embeddings == embed_documents(db, documents)
                  texts == [i \in 1..Len(documents) |-> documents[i].page_content]
                  metadatas == [i \in 1..Len(documents) |-> documents[i].metadata]
                  added == collection_add(coll, ids, embeddings, texts, metadatas, fault)
              IN  IF added.raised
                  THEN [ret |-> FALSE, coll |-> coll]
                  ELSE [ret |-> TRUE, coll |-> added.coll]

\* a similarity_search that asks the collection for one row too many
SimilaritySearchOneMore(db, coll, query, n_results, where, fault) ==
    IF fault = "embedding"
    THEN <<>>
    ELSE LET found == collection_query(coll, encode(db.embedding_model_name, query),
                                       n_results + 1, where, fault)
         IN  IF found.raised THEN <<>> ELSE found.rows

\* a similarity_search that runs the query again, outside the try block, when
\* the first collection.query raised
SimilaritySearchRetries(db, coll, query, n_results, where, fault) ==
    IF fault = "embedding"
    THEN <<>>
    ELSE LET found == collection_query(coll, encode(db.embedding_model_name, query),
                                       n_results, where, "none")
         IN  IF found.raised THEN <<>> ELSE found.rows

\* similarity_search(query, n_results, where): the formatted rows, [] on any
\* exception
similarity_search(db, coll, query, n_results, where, fault) ==
    IF fault = "embedding"
    THEN <<>>
    ELSE LET found == collection_query(coll, encode(db.embedding_model_name, query),
                                       n_results, where, fault)
         IN  IF found.raised THEN <<>> ELSE found.rows

NoDocuments == "No relevant documents found."

TruncationMarker == "..."

Separator == "\n---\n"

\* lines 218-221: the labelled block of one search result
Entry(result) ==
    LET source == MetaGet(result.metadata, "source", "Unknown")
        index == IF "chunk_index" \in DOMAIN result.metadata
                 THEN ToStr(result.metadata["chunk_index"])
                 ELSE "N/A"
        chunk_info == "[Document: " \o source \o ", Chunk " \o index \o "]"
    IN  chunk_info \o "\n" \o result.document \o "\n"

\* the loop without the "and context_parts" exemption of the first block
RECURSIVE ContextPartsNoFirst(_, _, _, _, _)
ContextPartsNoFirst(results, i, context_parts, current_length, max_context_length) ==
    IF i > Len(results) THEN context_parts
    ELSE LET entry == Entry(results[i])
         IN  IF current_length + Len(entry) > max_context_length
             THEN context_parts
             ELSE ContextPartsNoFirst(results, i + 1, Append(context_parts, entry),
                                      current_length + Len(entry), max_context_length)

\* the loop with "continue" in place of "break": a block that does not fit is
\* left out and the blocks after it are still tried
RECURSIVE ContextPartsSkip(_, _, _, _, _)
ContextPartsSkip(results, i, context_parts, current_length, max_context_length) ==
    IF i > Len(results) THEN context_parts
    ELSE LET entry == Entry(results[i])
         IN  IF current_length + Len(entry) > max_context_length
                    /\ Len(context_parts) > 0
             THEN ContextPartsSkip(results, i + 1, context_parts, current_length,
                                   max_context_length)
             ELSE ContextPartsSkip(results, i + 1, Append(context_parts, entry),
                                   current_length + Len(entry), max_context_length)

\* lines 209-228: the loop over the results from position i on, with the parts
\* and the running length so far
RECURSIVE ContextParts(_, _, _, _, _)
ContextParts(results, i, context_parts, current_length, max_context_length) ==
    IF i > Len(results) THEN context_parts
    ELSE LET entry == Entry(results[i])
         IN  IF current_length + Len(entry) > max_context_length
                    /\ Len(context_parts) > 0
             THEN context_parts
             ELSE ContextParts(results, i + 1, Append(context_parts, entry),
                               current_length + Len(entry), max_context_length)

\* the formatting without the "if not results" return of the sentinel
FormatContextNoSentinel(results, max_context_length) ==
    LET context == Join(ContextParts(results, 1, <<>>, 0, max_context_length),
                        Separator)
    IN  IF Len(context) > max_context_length
        THEN Slice(context, 0, max_context_length) \o TruncationMarker
        ELSE context

\* lines 206-235: the context string of a list of search results
FormatContext(results, max_context_length) ==
    IF Len(results) = 0 THEN NoDocuments
    ELSE LET context == Join(ContextParts(results, 1, <<>>, 0, max_context_length),
                             Separator)
         IN  IF Len(context) > max_context_length
             THEN Slice(context, 0, max_context_length) \o TruncationMarker
             ELSE context

\* get_relevant_context(query, n_results, max_context_length)
get_relevant_context(db, coll, query, n_results, max_context_length, fault) ==
    FormatContext(similarity_search(db, coll, query, n_results, NoWhere, fault),
                  max_context_length)

\* get_collection_info()["document_count"]; {} (no count, here -1) on an exception
get_collection_info(db, coll, fault) ==
    IF fault = "storage" \/ ~coll.exists THEN -1 ELSE collection_count(coll)

ClearFaults == {"none", "get", "delete"}

\* a clear_collection that deletes one id only
ClearCollectionFirstOnly(db, coll, fault) ==
    LET got == collection_get(coll, IF fault = "get" THEN "storage" ELSE "none")
    IN  IF got.raised \/ (got.ids # {} /\ fault = "delete")
        THEN [ret |-> FALSE, coll |-> coll]
        ELSE IF got.ids # {}
             THEN [ret |-> TRUE,
                   coll |-> collection_delete(coll, {CHOOSE i \in got.ids : TRUE})]
             ELSE [ret |-> TRUE, coll |-> coll]

\* clear_collection(): get every id, delete them; fault = "get" / "delete": that
\* call raises
clear_collection(db, coll, fault) ==
    LET got == collection_get(coll, IF fault = "get" THEN "storage" ELSE "none")
    IN  IF got.raised
        THEN [ret |-> FALSE, coll |-> coll]
        ELSE IF got.ids # {}
             THEN IF fault = "delete"
                  THEN [ret |-> FALSE, coll |-> coll]
                  ELSE [ret |-> TRUE, coll |-> collection_delete(coll, got.ids)]
             ELSE [ret |-> TRUE, coll |-> coll]

\* a delete_collection that resets the whole persist directory
DeleteCollectionResetsClient(db, colls, fault) ==
    IF fault = "storage" \/ ~colls[db.collection_name].exists
    THEN [ret |-> FALSE, colls |-> colls]
    ELSE [ret |-> TRUE, colls |-> [n \in DOMAIN colls |-> NoCollection]]

\* delete_collection(): client.delete_collection(name=self.collection_name) on
\* the collections of the persist directory; raises when the name is absent
delete_collection(db, colls, fault) ==
    IF fault = "storage" \/ ~colls[db.collection_name].exists
    THEN [ret |-> FALSE, colls |-> colls]
    ELSE [ret |-> TRUE, colls |-> [colls EXCEPT ![db.collection_name] = NoCollection]]

\* -------------------------------------------------------- DocumentProcessor

\* a separator list without the fallback to single characters
SeparatorsNoFallback == <<"\n\n", "\n", " ">>

\* document_processor.py line 36: separators=["\n\n", "\n", " ", ""]
Separators == <<"\n\n", "\n", " ", "">>

\* Optional[Dict]: None, or a dict
NoMetadata == [none |-> TRUE]

SomeMetadata(dict) == [none |-> FALSE, dict |-> dict]

\* str.find(sep, i), counted from 1: the first occurrence from position i on,
\* 0 when there is none
RECURSIVE Find(_, _, _)
Find(text, sep, i) ==
    IF i + Len(sep) - 1 > Len(text) THEN 0
    ELSE IF SubSeq(text, i, i + Len(sep) - 1) = sep THEN i
    ELSE Find(text, sep, i + 1)

\* re.split(separator, text): the pieces between the occurrences of the
\* separator, found from left to right without overlap
RECURSIVE Pieces(_, _)
Pieces(text, separator) ==
    LET at == Find(text, separator, 1)
    IN  IF at = 0 THEN <<text>>
        ELSE <<SubSeq(text, 1, at - 1)>>
                 \o Pieces(SubSeq(text, at + Len(separator), Len(text)), separator)

\* the splitter's _split_text_with_regex with keep_separator=True: each piece
\* after the first keeps the separator in front of it; "" splits into
\* characters; empty pieces are dropped
_split_text_with_regex(text, separator) ==
    LET pieces == Pieces(text, separator)
        splits == IF separator = ""
                  THEN [i \in 1..Len(text) |-> CharAt(text, i)]
                  ELSE [i \in 1..Len(pieces) |->
                           IF i = 1 THEN pieces[1] ELSE separator \o pieces[i]]
    IN  SelectSeq(splits, LAMBDA x : x # "")

\* the splitter's _join_docs: the joined and stripped text, None (here "") when
\* nothing is left
_join_docs(docs, separator) == Strip(Join(docs, separator))

\* _merge_splits: the while loop that drops splits from the front of
\* current_doc until the overlap and the next split fit
RECURSIVE PopFront(_, _, _, _, _, _)
PopFront(current_doc, total, len, separator, chunk_size, chunk_overlap) ==
    IF /\ \/ total > chunk_overlap
          \/ /\ total + len + (IF Len(current_doc) > 0 THEN Len(separator) ELSE 0)
                    > chunk_size
             /\ total > 0
       /\ Len(current_doc) > 0
    THEN PopFront(Tail(current_doc),
                  total - (Len(Head(current_doc))
                              + (IF Len(current_doc) > 1 THEN Len(separator) ELSE 0)),
                  len, separator, chunk_size, chunk_overlap)
    ELSE [current_doc |-> current_doc, total |-> total]

\* _merge_splits: the for loop over the splits from position i on
RECURSIVE MergeLoop(_, _, _, _, _, _, _, _)
MergeLoop(splits, i, docs, current_doc, total, separator, chunk_size, chunk_overlap) ==
    LET doc == _join_docs(current_doc, separator)
        joined == IF doc = "" THEN docs ELSE Append(docs, doc)
    IN  IF i > Len(splits) THEN joined
        ELSE LET d == splits[i]
                 sep_len(cur) == IF Len(cur) > 0 THEN Len(separator) ELSE 0
             IN  IF total + Len(d) + sep_len(current_doc) > chunk_size
                        /\ Len(current_doc) > 0
                 THEN LET kept == PopFront(current_doc, total, Len(d), separator,
                                           chunk_size, chunk_overlap)
                      IN  MergeLoop(splits, i + 1, joined,
                                    Append(kept.current_doc, d),
                                    kept.total + Len(d) + sep_len(kept.current_doc),
                                    separator, chunk_size, chunk_overlap)
                 ELSE MergeLoop(splits, i + 1, docs, Append(current_doc, d),
                                total + Len(d) + sep_len(current_doc),
                                separator, chunk_size, chunk_overlap)

\* the splitter's _merge_splits(splits, separator): chunks of whole splits
_merge_splits(splits, separator, chunk_size, chunk_overlap) ==
    MergeLoop(splits, 1, <<>>, <<>>, 0, separator, chunk_size, chunk_overlap)

\* the position in separators of the separator _split_text uses: the first
\* one that is "" or occurs in the text, the last one when there is none
RECURSIVE ChooseSeparator(_, _, _)
ChooseSeparator(text, separators, i) ==
    IF i > Len(separators) THEN [at |-> Len(separators), new_separators |-> <<>>]
    ELSE IF separators[i] = "" THEN [at |-> i, new_separators |-> <<>>]
    ELSE IF Find(text, separators[i], 1) > 0
         THEN [at |-> i,
               new_separators |-> SubSeq(separators, i + 1, Len(separators))]
         ELSE ChooseSeparator(text, separators, i + 1)

Max(a, b) == IF a >= b THEN a ELSE b

\* RecursiveCharacterTextSplitter._split_text(text, separators): the chunks,
\* and how deep the calls were nested
RECURSIVE _split_text(_, _, _, _)

\* _split_text: the loop over the splits from position i on
RECURSIVE SplitLoop(_, _, _, _, _, _, _, _)
SplitLoop(splits, i, good_splits, final_chunks, depth, new_separators, chunk_size, chunk_overlap) ==
    LET merged == IF Len(good_splits) > 0
                  THEN final_chunks
                           \o _merge_splits(good_splits, "", chunk_size, chunk_overlap)
                  ELSE final_chunks
    IN  IF i > Len(splits) THEN [chunks |-> merged, depth |-> depth]
        ELSE IF Len(splits[i]) < chunk_size
             THEN SplitLoop(splits, i + 1, Append(good_splits, splits[i]),
                            final_chunks, depth, new_separators,
                            chunk_size, chunk_overlap)
             ELSE LET other_info ==
                          IF Len(new_separators) = 0
                          THEN [chunks |-> <<splits[i]>>, depth |-> 0]
                          ELSE _split_text(splits[i], new_separators,
                                           chunk_size, chunk_overlap)
                  IN  SplitLoop(splits, i + 1, <<>>, merged \o other_info.chunks,
                                Max(depth, other_info.depth), new_separators,
                                chunk_size, chunk_overlap)

_split_text(text, separators, chunk_size, chunk_overlap) ==
    LET chosen == ChooseSeparator(text, separators, 1)
        splits == _split_text_with_regex(text, separators[chosen.at])
        done == SplitLoop(splits, 1, <<>>, <<>>, 0, chosen.new_separators,
                          chunk_size, chunk_overlap)
    IN  [chunks |-> done.chunks, depth |-> done.depth + 1]

\* metadata whose chunk_index counts from 1
ChunkMetadataFromOne(metadata, i, chunk) ==
    LET given == IF metadata.none THEN {} ELSE DOMAIN metadata.dict
    IN  [k \in given \cup {"chunk_index", "chunk_size"} |->
            IF k = "chunk_index" THEN i + 1
            ELSE IF k = "chunk_size" THEN Len(chunk)
            ELSE metadata.dict[k]]

\* dict.update of a copy of the caller's metadata (an empty dict for None or {})
ChunkMetadata(metadata, i, chunk) ==
    LET given == IF metadata.none THEN {} ELSE DOMAIN metadata.dict
    IN  [k \in given \cup {"chunk_index", "chunk_size"} |->
            IF k = "chunk_index" THEN i
            ELSE IF k = "chunk_size" THEN Len(chunk)
            ELSE metadata.dict[k]]

\* a chunk_text that returns early for the empty text only ("if not text")
ChunkTextNoStrip(text, metadata, chunk_size, chunk_overlap) ==
    IF text = ""
    THEN [documents |-> <<>>, split_calls |-> 0, depth |-> 0]
    ELSE LET split == _split_text(text, Separators, chunk_size, chunk_overlap)
         IN  [documents |->
                 [i \in 1..Len(split.chunks) |->
                     [page_content |-> split.chunks[i],
                      metadata |-> ChunkMetadata(metadata, i - 1, split.chunks[i])]],
              split_calls |-> 1, depth |-> split.depth]

\* DocumentProcessor(chunk_size, chunk_overlap).chunk_text(text, metadata): the
\* documents, how often split_text was called and how deep it nested
chunk_text(text, metadata, chunk_size, chunk_overlap) ==
    IF Strip(text) = ""
    THEN [documents |-> <<>>, split_calls |-> 0, depth |-> 0]
    ELSE LET split == _split_text(text, Separators, chunk_size, chunk_overlap)
         IN  [documents |->
                 [i \in 1..Len(split.chunks) |->
                     [page_content |-> split.chunks[i],
                      metadata |-> ChunkMetadata(metadata, i - 1, split.chunks[i])]],
              split_calls |-> 1, depth |-> split.depth]

\* ------------------------------------------------------ ConversationManager

\* a datetime: the date and the time of day as isoformat writes them, the
\* microsecond, and the UTC offset ("" for a naive datetime)
Datetime(date, time, microsecond, tzinfo) ==
    [date |-> date, time |-> time, microsecond |-> microsecond, tzinfo |-> tzinfo]

DigitChar(d) == SubSeq("0123456789", d + 1, d + 1)

DigitValue(c) == CHOOSE d \in 0..9 : DigitChar(d) = c

RECURSIVE Power10(_)
Power10(n) == IF n = 0 THEN 1 ELSE 10 * Power10(n - 1)

\* the integer as n decimal digits, padded with zeros
RECURSIVE Digits(_, _)
Digits(value, n) ==
    IF n = 0 THEN ""
    ELSE DigitChar((value \div Power10(n - 1)) % 10) \o Digits(value, n - 1)

\* int(text) for a text of decimal digits
RECURSIVE ToInt(_)
ToInt(text) ==
    IF Len(text) = 0 THEN 0
    ELSE 10 * ToInt(SubSeq(text, 1, Len(text) - 1))
            + DigitValue(CharAt(text, Len(text)))

\* datetime.isoformat(): YYYY-MM-DDTHH:MM:SS, then .ffffff unless the
\* microsecond is 0, then the UTC offset of an aware datetime
isoformat(dt) ==
    dt.date \o "T" \o dt.time
        \o (IF dt.microsecond = 0 THEN "" ELSE "." \o Digits(dt.microsecond, 6))
        \o dt.tzinfo

\* datetime.fromisoformat(text) of a text in the format of isoformat
fromisoformat(text) ==
    LET rest == SubSeq(text, 20, Len(text))
        fraction == StartsWith(rest, ".")
    IN  Datetime(SubSeq(text, 1, 10), SubSeq(text, 12, 19),
                 IF fraction THEN ToInt(SubSeq(rest, 2, 7)) ELSE 0,
                 IF fraction THEN SubSeq(rest, 8, Len(rest)) ELSE rest)

\* Optional[List[str]]: None, or a list
NoTags == [none |-> TRUE]

SomeTags(list) == [none |-> FALSE, list |-> list]

Quoted(text) == "\"" \o text \o "\""

Unquoted(text) == SubSeq(text, 2, Len(text) - 1)

\* json.dumps of a list of strings or of None
json_dumps_tags(tags) ==
    IF tags.none THEN "null"
    ELSE "[" \o Join([i \in 1..Len(tags.list) |-> Quoted(tags.list[i])], ", ") \o "]"

\* json.loads of the text of a list of strings, or of null
json_loads_tags(text) ==
    IF text = "null" THEN NoTags
    ELSE IF text = "[]" THEN SomeTags(<<>>)
    ELSE LET items == Pieces(SubSeq(text, 2, Len(text) - 1), ", ")
         IN  SomeTags([i \in 1..Len(items) |-> Unquoted(items[i])])

\* json.dumps of one message, a dict with the keys role and content
json_dumps_message(message) ==
    "{" \o Quoted("role") \o ": " \o Quoted(message.role) \o ", "
        \o Quoted("content") \o ": " \o Quoted(message.content) \o "}"

\* json.loads of the text of one message
json_loads_message(text) ==
    LET members == Pieces(SubSeq(text, 2, Len(text) - 1), ", ")
        value(member) == Unquoted(Pieces(member, ": ")[2])
    IN  [role |-> value(members[1]), content |-> value(members[2])]

\* json.dumps of the list of messages
json_dumps_messages(messages) ==
    "[" \o Join([i \in 1..Len(messages) |-> json_dumps_message(messages[i])], ", ")
        \o "]"

\* json.loads of the text of a list of messages
json_loads_messages(text) ==
    IF text = "[]" THEN <<>>
    ELSE LET inner == SubSeq(text, 3, Len(text) - 2)
             objects == Pieces(inner, "}, {")
         IN  [i \in 1..Len(objects) |-> json_loads_message("{" \o objects[i] \o "}")]

\* Conversation.__post_init__ (lines 30-34)
__post_init__(self) ==
    LET tagged == IF self.tags.none THEN [self EXCEPT !.tags = SomeTags(<<>>)]
                  ELSE self
    IN  IF tagged.message_count = 0
        THEN [tagged EXCEPT !.message_count = Len(tagged.messages)]
        ELSE tagged

\* Conversation(id, title, messages, created_at, updated_at, ...): the
\* dataclass constructor, which ends with __post_init__
Conversation(id, title, messages, created_at, updated_at, category, tags, summary, message_count, total_tokens) ==
    __post_init__([id |-> id, title |-> title, messages |-> messages,
                   created_at |-> created_at, updated_at |-> updated_at,
                   category |-> category, tags |-> tags, summary |-> summary,
                   message_count |-> message_count,
                   total_tokens |-> total_tokens])

\* Optional[Conversation]: None, or a conversation
NoConversation == [none |-> TRUE]

SomeConversation(conversation) == [none |-> FALSE, conversation |-> conversation]

\* lines 86-96: the values bound to the columns of the INSERT
Row(conversation) ==
    [id |-> conversation.id, title |-> conversation.title,
     messages |-> json_dumps_messages(conversation.messages),
     created_at |-> isoformat(conversation.created_at),
     updated_at |-> isoformat(conversation.updated_at),
     category |-> conversation.category,
     tags |-> json_dumps_tags(conversation.tags),
     summary |-> conversation.summary,
     message_count |-> conversation.message_count,
     total_tokens |-> conversation.total_tokens]

\* INSERT OR REPLACE on a table whose primary key is id: a row with the same
\* id is deleted, then the row is inserted
InsertOrReplace(rows, row) ==
    Append(SelectSeq(rows, LAMBDA r : r.id # row.id), row)

\* save_conversation (lines 77-100): fault = the sqlite3 call raises
save_conversation(rows, conversation, fault) ==
    IF fault THEN [ret |-> FALSE, rows |-> rows]
    ELSE [ret |-> TRUE, rows |-> InsertOrReplace(rows, Row(conversation))]

\* load_conversation (lines 102-127): the first row with the id, rebuilt by the
\* constructor; None when there is no row or the sqlite3 call raises
load_conversation(rows, conversation_id, fault) ==
    LET found == SelectSeq(rows, LAMBDA r : r.id = conversation_id)
        row == found[1]
    IN  IF fault \/ Len(found) = 0 THEN NoConversation
        ELSE SomeConversation(
                 Conversation(row.id, row.title, json_loads_messages(row.messages),
                              fromisoformat(row.created_at),
                              fromisoformat(row.updated_at),
                              row.category, json_loads_tags(row.tags), row.summary,
                              row.message_count, row.total_tokens))

\* delete_conversation (lines 177-185)
delete_conversation(rows, conversation_id, fault) ==
    IF fault THEN [ret |-> FALSE, rows |-> rows]
    ELSE [ret |-> TRUE,
          rows |-> SelectSeq(rows, LAMBDA r : r.id # conversation_id)]

\* ----------------------------------------------------------- chunk settings

\* rag_chatbot_app.py:562-573: the two number inputs of the Chunk Settings
\* expander: the smallest and largest value and the step of each
ChunkSizeMin == 200

ChunkSizeMax == 4000

ChunkSizeStep == 100

ChunkOverlapMin == 0

ChunkOverlapMax == 1000

ChunkOverlapStep == 50

\* the values the steps of the chunk size input reach
ChunkSizes ==
    {v \in ChunkSizeMin..ChunkSizeMax : (v - ChunkSizeMin) % ChunkSizeStep = 0}

\* the values the steps of the chunk overlap input reach
ChunkOverlaps ==
    {v \in ChunkOverlapMin..ChunkOverlapMax :
        (v - ChunkOverlapMin) % ChunkOverlapStep = 0}

\* lines 559-560 and document_processor.py:22: the settings of a new session
DefaultChunkSize == 1000

DefaultChunkOverlap == 200

\* document_processor.py:22-37: the constructor keeps the pair and builds the
\* splitter with it; the splitter's constructor raises ValueError for an
\* overlap larger than the chunk size
DocumentProcessor(chunk_size, chunk_overlap) ==
    IF chunk_overlap > chunk_size
    THEN [raised |-> TRUE, chunk_size |-> chunk_size,
          chunk_overlap |-> chunk_overlap]
    ELSE [raised |-> FALSE, chunk_size |-> chunk_size,
          chunk_overlap |-> chunk_overlap]

\* the session before the first change: no _chunk_size and no _chunk_overlap
\* key (read with the defaults), doc_processor built with the defaults
DefaultSettings ==
    [_chunk_size |-> DefaultChunkSize, _chunk_overlap |-> DefaultChunkOverlap,
     doc_processor |-> [chunk_size |-> DefaultChunkSize,
                        chunk_overlap |-> DefaultChunkOverlap]]

\* -------------------------------------------------------------------- state

VARIABLES
    collections,   \* the persist directory: collection name -> collection
    vector_db,     \* the live VectorDatabase instance
    uuids,         \* how many uuid4 values were drawn and stored so far
    acked,         \* history: per collection, the ids whose add returned True
                   \*          and that no successful clear or delete removed
    last,          \* the call that just returned: its name, arguments and
                   \* result ("none" once the caller has taken the result)
    chunk_hashes,  \* st.session_state.chunk_hashes
    messages,      \* st.session_state.messages
    message_count, \* st.session_state.message_count
    hist,          \* history of the uploads into the application's collection:
                   \* submitted: the trimmed texts ever processed; add_failed:
                   \* an add_documents of an upload returned False; cleared:
                   \* Clear Docs was used; failed: the trimmed texts of this
                   \* session whose add_documents failed and did not succeed
                   \* since
    callers,       \* the callers that use the application's collection at the
                   \* same time: where each is in its handler, and its locals
    conversations, \* the rows of the table "conversations" of the SQLite file
    settings       \* st.session_state: _chunk_size, _chunk_overlap and the
                   \* chunk_size and chunk_overlap of doc_processor

db_vars == <<collections, vector_db, uuids, acked>>

app_vars == <<chunk_hashes, messages, message_count, hist, callers, conversations,
              settings>>

vars == <<collections, vector_db, uuids, acked, last, chunk_hashes, messages,
          message_count, hist, callers,
          conversations, settings>>

\* ------------------------------------------------------------------- inputs

Doc(text, meta) == [page_content |-> text, metadata |-> meta]

DocA0 == Doc("aa", [source |-> "a.txt", chunk_index |-> 0])
DocA1 == Doc("b", [source |-> "a.txt", chunk_index |-> 1])
DocB0 == Doc("aa", [source |-> "b.txt", chunk_index |-> 0])
DocX == Doc("cccc", [file_type |-> "text/plain"])

Documents == {DocA0, DocA1, DocB0, DocX}

\* a chunk that differs from the chunk of DocA0 in the case of a letter only
DocU == Doc("Aa", [source |-> "notes.txt", chunk_index |-> 0])

\* the documents a store can hold when retrieval starts
StoredDocuments == Documents \cup {DocU}

Batches == SeqsUpTo(Documents, MaxBatch)

Queries == {"aa", "b"}

NResults == 0..3

\* no filter, a filter on a metadata field, a filter with an unknown operator
Wheres ==
    {NoWhere, SomeWhere([k \in {"source"} |-> "a.txt"]),
     SomeWhere([k \in {"$near"} |-> "a.txt"])}

\* context budgets around the block lengths of the documents above (29, 30, 36)
MaxContextLengths == {20, 30, 60, 65, 100}

NoCall ==
    [op |-> "none", ret |-> FALSE, fault |-> "none", documents |-> <<>>,
     ids |-> {}, results |-> <<>>, context |-> "", query |-> "", n_results |-> 0,
     max_context_length |-> 0, count |-> 0, after_clear |-> FALSE,
     sources |-> <<>>, added |-> 0, skipped |-> 0, where |-> NoWhere,
     text |-> "", metadata |-> NoMetadata, chunk_size |-> 0, chunk_overlap |-> 0,
     split_calls |-> 0, depth |-> 0, conversation |-> NoConversation,
     conversation_id |-> "", loaded |-> NoConversation]

\* the caller is between two calls
Idle == last.op = "none"

\* a call made now: after_clear says that the call before it was a
\* clear_collection of the same instance that returned True
Call(op) == [NoCall EXCEPT !.op = op, !.after_clear = last.after_clear]

\* the collection the live instance is bound to
Coll == collections[vector_db.collection_name]

\* the sessions (script threads) of the concurrent runs
Callers == {"s1", "s2"}

\* a caller outside any handler: pc is its position, chunk_hashes its
\* session's hash set, unique_docs and got the locals of the handler it is in,
\* op and ret the handler that returned last and its result; present (the ids
\* in the collection when its clear_collection started) and batch (the ids
\* of its latest successful add) are history
IdleCaller ==
    [pc |-> "idle", chunk_hashes |-> {}, unique_docs |-> <<>>, got |-> {},
     op |-> "none", ret |-> FALSE, present |-> {}, batch |-> {}]

\* --------------------------------------------------------------------- Init

\* a new session: no hash seen, no message (lines 825-826, 1009-1010, 1130-1131)
AppInit ==
    /\ chunk_hashes = {}
    /\ messages = <<>>
    /\ message_count = 0
    /\ hist = [submitted |-> {}, add_failed |-> FALSE, cleared |-> FALSE,
               failed |-> {}]
    /\ callers = [p \in Callers |-> IdleCaller]
    /\ conversations = <<>>
    /\ settings = DefaultSettings

\* the application's instance was constructed on an empty persist directory
Init ==
    /\ collections = [n \in CollectionNames |->
                        IF n = "rag_chatbot_docs" THEN EmptyCollection
                        ELSE NoCollection]
    /\ vector_db = Instance("rag_chatbot_docs", "all-MiniLM-L6-v2")
    /\ uuids = 0
    /\ acked = [n \in CollectionNames |-> {}]
    /\ last = NoCall
    /\ AppInit

\* ------------------------------------------------------------------ actions

\* VectorDatabase(collection_name, embedding_model): a process start or a reopen
NewVectorDatabase(name, model, fault) ==
    LET opened == _initialize_chroma_client(collections, name, fault)
    IN  /\ Idle
        /\ collections' = opened.colls
        /\ vector_db' = IF opened.raised THEN vector_db ELSE Instance(name, model)
        /\ last' = [NoCall EXCEPT !.op = "init", !.ret = ~opened.raised,
                                  !.fault = fault]
        /\ UNCHANGED <<uuids, acked>>
        /\ UNCHANGED app_vars

\* vector_db.add_documents(documents)
AddDocuments(documents, fault) ==
    LET ids == [i \in 1..Len(documents) |-> uuids + i]
        name == vector_db.collection_name
        done == add_documents(vector_db, Coll, documents, ids, fault)
    IN  /\ Idle
        /\ uuids + Len(documents) <= MaxUuids
        /\ uuids' = IF done.ret THEN uuids + Len(documents) ELSE uuids
        /\ collections' = [collections EXCEPT ![name] = done.coll]
        /\ acked' = IF done.ret
                    THEN [acked EXCEPT ![name] = @ \cup Range(ids)]
                    ELSE acked
        /\ last' = [Call("add_documents") EXCEPT !.ret = done.ret,
                                  !.fault = fault, !.documents = documents,
                                  !.ids = Range(ids)]
        /\ UNCHANGED vector_db
        /\ UNCHANGED app_vars

\* vector_db.similarity_search(query, n_results, where)
SimilaritySearch(query, n_results, where, fault) ==
    /\ Idle
    /\ last' = [Call("similarity_search") EXCEPT !.fault = fault, !.query = query,
                  !.n_results = n_results, !.where = where,
                  !.results = similarity_search(vector_db, Coll, query,
                                                n_results, where, fault)]
    /\ UNCHANGED db_vars
    /\ UNCHANGED app_vars

\* vector_db.get_relevant_context(query, n_results, max_context_length)
GetRelevantContext(query, n_results, max_context_length, fault) ==
    /\ Idle
    /\ last' = [Call("get_relevant_context") EXCEPT !.fault = fault,
                  !.query = query, !.n_results = n_results,
                  !.max_context_length = max_context_length,
                  !.results = similarity_search(vector_db, Coll, query,
                                                n_results, NoWhere, fault),
                  !.context = get_relevant_context(vector_db, Coll, query,
                                  n_results, max_context_length, fault)]
    /\ UNCHANGED db_vars
    /\ UNCHANGED app_vars

\* vector_db.get_collection_info()
GetCollectionInfo(fault) ==
    /\ Idle
    /\ last' = [Call("get_collection_info") EXCEPT !.fault = fault,
                              !.count = get_collection_info(vector_db, Coll, fault)]
    /\ UNCHANGED db_vars
    /\ UNCHANGED app_vars

\* vector_db.clear_collection()
ClearCollection(fault) ==
    LET name == vector_db.collection_name
        done == clear_collection(vector_db, Coll, fault)
    IN  /\ Idle
        /\ collections' = [collections EXCEPT ![name] = done.coll]
        /\ acked' = IF done.ret THEN [acked EXCEPT ![name] = {}] ELSE acked
        /\ last' = [Call("clear_collection") EXCEPT !.ret = done.ret,
                                  !.fault = fault]
        /\ UNCHANGED <<vector_db, uuids>>
        /\ UNCHANGED app_vars

\* vector_db.delete_collection()
DeleteCollection(fault) ==
    LET name == vector_db.collection_name
        done == delete_collection(vector_db, collections, fault)
    IN  /\ Idle
        /\ collections' = done.colls
        /\ acked' = IF done.ret THEN [acked EXCEPT ![name] = {}] ELSE acked
        /\ last' = [Call("delete_collection") EXCEPT !.ret = done.ret,
                                  !.fault = fault]
        /\ UNCHANGED <<vector_db, uuids>>
        /\ UNCHANGED app_vars

\* the caller takes the returned value and goes on to its next call
Return ==
    /\ ~Idle
    /\ last' = [NoCall EXCEPT
                  !.after_clear = (last.op = "clear_collection" /\ last.ret)]
    /\ UNCHANGED db_vars
    /\ UNCHANGED app_vars

Next ==
    \/ \E name \in CollectionNames, model \in EmbeddingModels,
          fault \in {"none", "storage"} : NewVectorDatabase(name, model, fault)
    \/ \E documents \in Batches, fault \in Faults : AddDocuments(documents, fault)
    \/ \E query \in Queries, n_results \in NResults, fault \in Faults :
          SimilaritySearch(query, n_results, NoWhere, fault)
    \/ \E fault \in {"none", "storage"} : GetCollectionInfo(fault)
    \/ \E fault \in ClearFaults : ClearCollection(fault)
    \/ \E fault \in {"none", "storage"} : DeleteCollection(fault)
    \/ Return

Spec == Init /\ [][Next]_vars

\* ------------------------------------------------- retrieval over a store

\* what collection.add stores for a list of documents under the ids 1..n
Stored(documents, model) ==
    [i \in 1..Len(documents) |->
        [id |-> i, embedding |-> encode(model, documents[i].page_content),
         document |-> documents[i].page_content,
         metadata |-> documents[i].metadata]]

\* a persist directory whose application collection was filled by earlier
\* add_documents calls (and, when it is empty, possibly cleared since), opened
\* by an instance with either embedder
InitRetrieval ==
    \E documents \in SeqsUpTo(StoredDocuments, MaxStored),
       stored_with \in EmbeddingModels, model \in EmbeddingModels,
       cleared \in BOOLEAN :
        /\ cleared => Len(documents) = 0
        /\ collections =
              [n \in CollectionNames |->
                  IF n = "rag_chatbot_docs"
                  THEN [exists |-> TRUE,
                        entries |-> Stored(documents, stored_with),
                        dimension |-> IF Len(documents) = 0 /\ ~cleared THEN 0
                                      ELSE Dimension(stored_with)]
                  ELSE NoCollection]
        /\ vector_db = Instance("rag_chatbot_docs", model)
        /\ uuids = Len(documents)
        /\ acked = [n \in CollectionNames |->
                      IF n = "rag_chatbot_docs" THEN 1..Len(documents) ELSE {}]
        /\ last = NoCall
        /\ AppInit

NextRetrieval ==
    \/ \E query \in Queries, n_results \in NResults, where \in Wheres,
          fault \in Faults : SimilaritySearch(query, n_results, where, fault)
    \/ \E query \in Queries, n_results \in NResults,
          max_context_length \in MaxContextLengths, fault \in Faults :
          GetRelevantContext(query, n_results, max_context_length, fault)
    \/ \E fault \in ClearFaults : ClearCollection(fault)
    \/ Return

SpecRetrieval == InitRetrieval /\ [][NextRetrieval]_vars

\* --------------------------------------------------------- the application

\* most messages of a session before the chat input is hidden
\* (CHAT_MESSAGE_LIMIT of the environment, 50 when unset)
message_limit == 3

\* most rows the metadata scan of the upload handler reads
ScanLimit == 100000

\* hashlib.sha1(text.encode()).hexdigest(): a digest that is a function of the
\* text; two texts of the model never collide
sha1(text) == "sha1(" \o text \o ")"

\* lines 832-844: the chunk_hash values found in the collection's metadata; no
\* value at all when collection.get raised (scan_fault)
existing_hashes(coll, scan_fault) ==
    IF scan_fault \/ ~coll.exists THEN {}
    ELSE {coll.entries[i].metadata["chunk_hash"] :
            i \in {j \in 1..Min(ScanLimit, Len(coll.entries)) :
                      "chunk_hash" \in DOMAIN coll.entries[j].metadata}}

\* lines 859-866: the document with its hash attached to the metadata
WithHash(d, h) ==
    [d EXCEPT !.metadata =
        [k \in DOMAIN d.metadata \cup {"chunk_hash"} |->
            IF k = "chunk_hash" THEN h ELSE d.metadata[k]]]

\* lines 846-869: the loop over the documents from position i on; acc holds
\* unique_docs, skipped and st.session_state.chunk_hashes so far
RECURSIVE FilterDuplicates(_, _, _, _)
FilterDuplicates(documents, i, existing, acc) ==
    IF i > Len(documents) THEN acc
    ELSE LET text_for_hash == Strip(documents[i].page_content)
             h == sha1(text_for_hash)
         IN  IF text_for_hash = ""
             THEN FilterDuplicates(documents, i + 1, existing, acc)
             ELSE IF h \in acc.chunk_hashes \/ h \in existing
                  THEN FilterDuplicates(documents, i + 1, existing,
                           [acc EXCEPT !.skipped = @ + 1])
                  ELSE FilterDuplicates(documents, i + 1, existing,
                           [acc EXCEPT
                              !.chunk_hashes = @ \cup {h},
                              !.unique_docs = Append(@, WithHash(documents[i], h))])

\* the results of process_uploaded_files: the chunks of uploaded files
UpA0 == Doc("aa", [source |-> "a.txt", chunk_index |-> 0])
UpA1 == Doc("b", [source |-> "a.txt", chunk_index |-> 1])
UpB0 == Doc("aa", [source |-> "b.txt", chunk_index |-> 0])
UpC0 == Doc("b", [source |-> "c.txt", chunk_index |-> 0])
UpC1 == Doc("b", [source |-> "c.txt", chunk_index |-> 1])

Uploads == {<<>>, <<UpA0, UpA1>>, <<UpB0>>, <<UpC0, UpC1>>}

\* the collection of the application
AppName == "rag_chatbot_docs"

\* the non-empty trimmed texts of a list of documents
TrimmedTexts(documents) ==
    {Strip(documents[i].page_content) : i \in 1..Len(documents)} \ {""}

\* lines 810-911: the "Process Documents" button. scan_fault: collection.get of
\* the metadata scan raises; fault: as for add_documents
ProcessDocuments(documents, scan_fault, fault) ==
    LET name == vector_db.collection_name
        filtered == FilterDuplicates(documents, 1, existing_hashes(Coll, scan_fault),
                        [unique_docs |-> <<>>, skipped |-> 0,
                         chunk_hashes |-> chunk_hashes])
        unique_docs == filtered.unique_docs
        ids == [i \in 1..Len(unique_docs) |-> uuids + i]
        done == IF Len(unique_docs) > 0
                THEN add_documents(vector_db, Coll, unique_docs, ids, fault)
                ELSE [ret |-> TRUE, coll |-> Coll]
    IN  /\ Idle
        /\ uuids + Len(unique_docs) <= MaxUuids
        /\ IF Len(documents) = 0
           THEN /\ last' = Call("process_documents")
                /\ UNCHANGED <<collections, uuids, acked, chunk_hashes, hist>>
           ELSE /\ chunk_hashes' = filtered.chunk_hashes
                /\ collections' = [collections EXCEPT ![name] = done.coll]
                /\ uuids' = IF Len(unique_docs) > 0 /\ done.ret
                            THEN uuids + Len(unique_docs) ELSE uuids
                /\ acked' = IF Len(unique_docs) > 0 /\ done.ret
                            THEN [acked EXCEPT ![name] = @ \cup Range(ids)]
                            ELSE acked
                /\ hist' = [hist EXCEPT
                              !.submitted = @ \cup TrimmedTexts(documents),
                              !.add_failed = @ \/ ~done.ret,
                              !.failed = IF done.ret
                                         THEN @ \ TrimmedTexts(unique_docs)
                                         ELSE @ \cup TrimmedTexts(unique_docs)]
                /\ last' = [Call("process_documents") EXCEPT
                              !.ret = done.ret, !.fault = fault,
                              !.documents = documents, !.ids = Range(ids),
                              !.added = Len(unique_docs),
                              !.skipped = filtered.skipped]
        /\ UNCHANGED <<vector_db, messages, message_count, callers,
                       conversations, settings>>

\* lines 627-630: the "Clear Docs" button
ClearDocs(fault) ==
    LET name == vector_db.collection_name
        done == clear_collection(vector_db, Coll, fault)
    IN  /\ Idle
        /\ collections' = [collections EXCEPT ![name] = done.coll]
        /\ acked' = IF done.ret THEN [acked EXCEPT ![name] = {}] ELSE acked
        /\ hist' = [hist EXCEPT !.cleared = TRUE]
        /\ last' = [Call("clear_collection") EXCEPT !.ret = done.ret,
                                                   !.fault = fault]
        /\ UNCHANGED <<vector_db, uuids, chunk_hashes, messages, message_count,
                       callers,
                       conversations, settings>>

\* lines 633-636 and 1009-1010: the "Reset Chat" button
ResetChat ==
    /\ Idle
    /\ messages' = <<>>
    /\ last' = Call("reset_chat")
    /\ UNCHANGED <<db_vars, chunk_hashes, message_count, hist, callers,
                   conversations, settings>>

\* lines 1146-1181: a prompt typed into the chat input, shown only below the
\* limit. The handler ends with st.rerun(); the answer is made by the script
\* run that follows (Respond), and the input is on the page during that run
ChatInput(prompt) ==
    /\ Idle
    /\ ~(message_count >= message_limit)
    /\ messages' = Append(messages,
                      [role |-> "user", content |-> prompt, sources |-> <<>>])
    /\ message_count' = message_count + 1
    /\ last' = Call("chat_input")
    /\ UNCHANGED <<db_vars, chunk_hashes, hist, callers,
                   conversations, settings>>

\* lines 1215-1221: one citation per search result
SourcesUsed(search_results) ==
    [i \in 1..Len(search_results) |->
        [source |-> MetaGet(search_results[i].metadata, "source", "Unknown"),
         chunk_index |-> search_results[i].metadata["chunk_index"],
         distance |-> search_results[i].distance,
         preview |-> search_results[i].document]]

RespondFaults == {"none", "info", "search", "context", "model"}

\* lines 1183-1247: the answer to the latest user message. fault = "info",
\* "search", "context": the storage call of get_collection_info, of
\* similarity_search, of get_relevant_context raises; "model": send_message raises
Respond(use_rag, num_context_docs, max_context_length, fault) ==
    /\ Idle
    /\ Len(messages) > 0 /\ messages[Len(messages)].role = "user"
    /\ LET latest_prompt == messages[Len(messages)].content
           storage(at) == IF fault = at THEN "storage" ELSE "none"
           document_count ==
               IF use_rag
               THEN get_collection_info(vector_db, Coll, storage("info"))
               ELSE 0
           search_results ==
               IF document_count > 0
               THEN similarity_search(vector_db, Coll, latest_prompt,
                                      num_context_docs, NoWhere, storage("search"))
               ELSE <<>>
           context ==
               IF Len(search_results) > 0
               THEN get_relevant_context(vector_db, Coll, latest_prompt,
                        num_context_docs, max_context_length, storage("context"))
               ELSE ""
           sources_used ==
               IF fault = "model" THEN <<>> ELSE SourcesUsed(search_results)
       IN  /\ messages' = Append(messages,
                             [role |-> "assistant",
                              content |-> IF fault = "model" THEN "error"
                                          ELSE "answer",
                              sources |-> sources_used])
           /\ last' = [Call("respond") EXCEPT
                         !.ret = (fault # "model"), !.query = latest_prompt,
                         !.fault = fault, !.n_results = num_context_docs,
                         !.max_context_length = max_context_length,
                         !.results = search_results, !.context = context,
                         !.sources = sources_used]
    /\ message_count' = message_count + 1
    /\ UNCHANGED <<db_vars, chunk_hashes, hist, callers,
                   conversations, settings>>

\* a new process or session: st.session_state is empty again, the instance is
\* built anew on the same persist directory (lines 728-729)
Restart ==
    LET opened == _initialize_chroma_client(collections, AppName, "none")
    IN  /\ Idle
        /\ collections' = opened.colls
        /\ vector_db' = Instance(AppName, "all-MiniLM-L6-v2")
        /\ chunk_hashes' = {}
        /\ messages' = <<>>
        /\ message_count' = 0
        /\ last' = [NoCall EXCEPT !.op = "restart", !.ret = TRUE]
        /\ hist' = [hist EXCEPT !.failed = {}]
        /\ UNCHANGED <<uuids, acked, callers,
                       conversations, settings>>

NumContextDocs == {1, 2, 3}

\* context budgets around the block lengths of the uploads (29 and 30)
ContextLengthOptions == {30, 65}

\* the upload side of the application
NextUpload ==
    \/ \E documents \in Uploads, scan_fault \in BOOLEAN, fault \in Faults :
          ProcessDocuments(documents, scan_fault, fault)
    \/ \E fault \in ClearFaults : ClearDocs(fault)
    \/ Restart
    \/ Return

SpecUpload == Init /\ [][NextUpload]_vars

\* the collection after a "Process Documents" of these documents that met no
\* error, in a session that had seen the hashes of seen
AfterUpload(coll, documents, seen) ==
    LET filtered == FilterDuplicates(documents, 1, existing_hashes(coll, FALSE),
                        [unique_docs |-> <<>>, skipped |-> 0, chunk_hashes |-> seen])
        ids == [i \in 1..Len(filtered.unique_docs) |-> Len(coll.entries) + i]
    IN  IF Len(filtered.unique_docs) = 0 THEN coll
        ELSE add_documents(Instance(AppName, "all-MiniLM-L6-v2"), coll,
                           filtered.unique_docs, ids, "none").coll

\* a session started on a persist directory that earlier sessions filled with
\* two uploads
InitChat ==
    \E first \in Uploads, second \in Uploads :
        LET coll == AfterUpload(AfterUpload(EmptyCollection, first, {}), second, {})
        IN  /\ collections = [n \in CollectionNames |->
                                IF n = AppName THEN coll ELSE NoCollection]
            /\ vector_db = Instance(AppName, "all-MiniLM-L6-v2")
            /\ uuids = Len(coll.entries)
            /\ acked = [n \in CollectionNames |->
                          IF n = AppName THEN Ids(coll) ELSE {}]
            /\ last = NoCall
            /\ chunk_hashes = {}
            /\ messages = <<>>
            /\ message_count = 0
            /\ hist = [submitted |-> TrimmedTexts(first) \cup TrimmedTexts(second),
                       add_failed |-> FALSE, cleared |-> FALSE, failed |-> {}]
            /\ callers = [p \in Callers |-> IdleCaller]
            /\ conversations = <<>>
            /\ settings = DefaultSettings

\* line 1184: the latest message is a user message, which the chat turn of
\* the script run in progress is about to answer
AnswerPending == Len(messages) > 0 /\ messages[Len(messages)].role = "user"

\* the chat side of the application, with a user who types the next prompt
\* when the answer to the last one is on the page
NextChat ==
    \/ \E prompt \in Queries : ~AnswerPending /\ ChatInput(prompt)
    \/ \E use_rag \in BOOLEAN, num_context_docs \in NumContextDocs,
          max_context_length \in ContextLengthOptions, fault \in RespondFaults :
          Respond(use_rag, num_context_docs, max_context_length, fault)
    \/ ResetChat
    \/ \E fault \in ClearFaults : ClearDocs(fault)
    \/ Restart
    \/ Return

SpecChat == InitChat /\ [][NextChat]_vars

\* the chat side with a user who also submits a prompt while the script run
\* that answers the last one is in progress: a widget event stops that run at
\* its next Streamlit call and starts a new one with the prompt
NextChatEager ==
    \/ \E prompt \in Queries : ChatInput(prompt)
    \/ \E use_rag \in BOOLEAN, num_context_docs \in NumContextDocs,
          max_context_length \in ContextLengthOptions, fault \in RespondFaults :
          Respond(use_rag, num_context_docs, max_context_length, fault)
    \/ ResetChat
    \/ Return

SpecChatEager == InitChat /\ [][NextChatEager]_vars

\* ------------------------------------------------------------ chunking

\* longest text handed to chunk_text
MaxTextLen == 4
\* largest chunk_size of a DocumentProcessor
MaxChunkSize == 3

\* the texts of at most n characters over a letter, the space and the newline
RECURSIVE TextsUpTo(_)
TextsUpTo(n) ==
    IF n = 0 THEN {""}
    ELSE LET shorter == TextsUpTo(n - 1)
         IN  shorter \cup {t \o c : t \in shorter, c \in {"a", " ", "\n"}}

\* longer texts with paragraphs, lines and words longer than a chunk
LongTexts == {"\n\n aaa", "a a a\naa\n\naaaa", "aaaaaaa", " a  a \n"}

Texts == TextsUpTo(MaxTextLen) \cup LongTexts

\* None, {}, the metadata of process_uploaded_files, and metadata that
\* carries the keys chunk_text sets itself
Metadatas ==
    {NoMetadata,
     SomeMetadata([k \in {} |-> ""]),
     SomeMetadata([k \in {"source", "file_type"} |->
                      IF k = "source" THEN "test.txt" ELSE "text/plain"]),
     SomeMetadata([k \in {"chunk_index", "chunk_size"} |-> 7])}

\* DocumentProcessor(chunk_size, chunk_overlap): the splitter's constructor
\* raises for chunk_overlap > chunk_size
ChunkSettings ==
    {c \in [chunk_size : 1..MaxChunkSize, chunk_overlap : 0..MaxChunkSize] :
        c.chunk_overlap <= c.chunk_size}

\* DocumentProcessor(chunk_size, chunk_overlap).chunk_text(text, metadata)
ChunkText(text, metadata, chunk_size, chunk_overlap) ==
    LET done == chunk_text(text, metadata, chunk_size, chunk_overlap)
    IN  /\ Idle
        /\ last' = [Call("chunk_text") EXCEPT
                      !.text = text, !.metadata = metadata,
                      !.chunk_size = chunk_size, !.chunk_overlap = chunk_overlap,
                      !.documents = done.documents,
                      !.split_calls = done.split_calls, !.depth = done.depth]
        /\ UNCHANGED db_vars
        /\ UNCHANGED app_vars

NextChunk ==
    \/ \E text \in Texts, metadata \in Metadatas, c \in ChunkSettings :
          ChunkText(text, metadata, c.chunk_size, c.chunk_overlap)
    \/ Return

SpecChunk == Init /\ [][NextChunk]_vars

\* ------------------------------------- the duplicate filter on any chunks

\* The filter loop strips and tests every text itself, whatever produced the
\* documents: here it is run on lists that also hold blank texts and texts
\* with whitespace around them.
Blank0 == Doc("", [source |-> "d.txt", chunk_index |-> 0])
Blank1 == Doc(" \n", [source |-> "d.txt", chunk_index |-> 1])
Padded == Doc(" aa\n", [source |-> "d.txt", chunk_index |-> 2])

\* longest list of documents handed to the filter
MaxFiltered == 3

FilterInputs == SeqsUpTo({UpB0, UpC0, Blank0, Blank1, Padded}, MaxFiltered)

\* the documents whose text is not empty after trimming
NonBlank(documents) ==
    SelectSeq(documents, LAMBDA d : Strip(d.page_content) # "")

NextFilter ==
    \/ \E documents \in FilterInputs, scan_fault \in BOOLEAN, fault \in Faults :
          ProcessDocuments(documents, scan_fault, fault)
    \/ Restart
    \/ Return

SpecFilter == Init /\ [][NextFilter]_vars

\* ------------------------------------------- sessions running side by side

\* The script threads of two sessions share the cached VectorDatabase and its
\* collection; each collection call (get, add, delete) is one step, and the
\* statements between two calls touch the session's own locals only.

\* lines 825-869 of the "Process Documents" handler of session p: the
\* metadata scan (collection.get) and the filter loop over its result
UploadScan(p, documents) ==
    LET filtered == FilterDuplicates(documents, 1, existing_hashes(Coll, FALSE),
                        [unique_docs |-> <<>>, skipped |-> 0,
                         chunk_hashes |-> callers[p].chunk_hashes])
    IN  /\ Idle
        /\ callers[p].pc = "idle"
        /\ Len(documents) > 0
        /\ callers' = [callers EXCEPT ![p] =
                          [@ EXCEPT !.pc = "scanned",
                                    !.chunk_hashes = filtered.chunk_hashes,
                                    !.unique_docs = filtered.unique_docs]]
        /\ hist' = [hist EXCEPT !.submitted = @ \cup TrimmedTexts(documents)]
        /\ UNCHANGED <<db_vars, last, chunk_hashes, messages, message_count,
                       conversations, settings>>

\* lines 871-873 of the handler of session p: add_documents(unique_docs) when
\* there is one, with its single collection.add
UploadAdd(p, fault) ==
    LET name == vector_db.collection_name
        unique_docs == callers[p].unique_docs
        ids == [i \in 1..Len(unique_docs) |-> uuids + i]
        called == Len(unique_docs) > 0
        done == IF called
                THEN add_documents(vector_db, Coll, unique_docs, ids, fault)
                ELSE [ret |-> TRUE, coll |-> Coll]
    IN  /\ callers[p].pc = "scanned"
        /\ uuids + Len(unique_docs) <= MaxSessionUuids
        /\ collections' = [collections EXCEPT ![name] = done.coll]
        /\ uuids' = IF called /\ done.ret THEN uuids + Len(unique_docs) ELSE uuids
        /\ acked' = IF called /\ done.ret
                    THEN [acked EXCEPT ![name] = @ \cup Range(ids)]
                    ELSE acked
        /\ callers' = [callers EXCEPT ![p] =
                          [@ EXCEPT !.pc = "idle", !.unique_docs = <<>>,
                                    !.op = "process_documents", !.ret = done.ret,
                                    !.batch = IF called /\ done.ret
                                              THEN Range(ids) ELSE @]]
        /\ hist' = [hist EXCEPT !.add_failed = @ \/ ~done.ret]
        /\ UNCHANGED <<vector_db, last, chunk_hashes, messages, message_count,
                       conversations, settings>>

\* vector_database.py lines 254-255: clear_collection of session p up to its
\* collection.get()
ClearGet(p, fault) ==
    LET got == collection_get(Coll, fault)
    IN  /\ Idle
        /\ callers[p].pc = "idle"
        /\ callers' = [callers EXCEPT ![p] =
                          IF got.raised
                          THEN [@ EXCEPT !.op = "clear_collection", !.ret = FALSE,
                                         !.present = Ids(Coll)]
                          ELSE [@ EXCEPT !.pc = "got", !.got = got.ids,
                                         !.present = Ids(Coll)]]
        /\ hist' = [hist EXCEPT !.cleared = TRUE]
        /\ UNCHANGED <<db_vars, last, chunk_hashes, messages, message_count,
                       conversations, settings>>

\* vector_database.py lines 256-264: the collection.delete(ids) of the ids
\* that were read, when there are any, and the return
ClearDelete(p, fault) ==
    LET name == vector_db.collection_name
        got == callers[p].got
        raised == got # {} /\ fault = "storage"
        coll == IF got # {} /\ ~raised THEN collection_delete(Coll, got) ELSE Coll
    IN  /\ callers[p].pc = "got"
        /\ collections' = [collections EXCEPT ![name] = coll]
        /\ acked' = [acked EXCEPT ![name] = @ \cap Ids(coll)]
        /\ callers' = [callers EXCEPT ![p] =
                          [@ EXCEPT !.pc = "idle", !.got = {},
                                    !.op = "clear_collection", !.ret = ~raised]]
        /\ UNCHANGED <<vector_db, uuids, last, chunk_hashes, messages,
                       message_count, hist,
                       conversations, settings>>

NextSessions ==
    \/ \E p \in Callers, documents \in Uploads : UploadScan(p, documents)
    \/ \E p \in Callers, fault \in Faults : UploadAdd(p, fault)
    \/ \E p \in Callers, fault \in {"none", "storage"} : ClearGet(p, fault)
    \/ \E p \in Callers, fault \in {"none", "storage"} : ClearDelete(p, fault)

SpecSessions == Init /\ [][NextSessions]_vars

\* ------------------------------------------- chunking without separators

\* longest text without a separator handed to chunk_text
MaxPlainLen == 5

\* the texts of at most n characters over two letters and the tab, none of
\* which is one of the separators
RECURSIVE PlainTextsUpTo(_)
PlainTextsUpTo(n) ==
    IF n = 0 THEN {""}
    ELSE LET shorter == PlainTextsUpTo(n - 1)
         IN  shorter \cup {t \o c : t \in shorter, c \in {"a", "b", "\t"}}

PlainTexts == PlainTextsUpTo(MaxPlainLen)

NextPlain ==
    \/ \E text \in PlainTexts, c \in ChunkSettings :
          ChunkText(text, NoMetadata, c.chunk_size, c.chunk_overlap)
    \/ Return

SpecPlain == Init /\ [][NextPlain]_vars

\* ------------------------------------------------- the conversation store

ConversationIds == {"c1", "c2"}

\* datetime.now() with and without microseconds, naive and aware
Now0 == Datetime("2026-01-01", "12:00:00", 0, "")
Now5 == Datetime("2026-01-01", "12:00:05", 5, "")
NowUtc == Datetime("2026-01-02", "08:30:00", 250000, "+00:00")

\* the test_messages of test_conversation_memory, shortened
test_messages ==
    <<[role |-> "user", content |-> "What is ML?"],
      [role |-> "assistant", content |-> "ML is a subset of AI..."]>>

\* the conversation of the test; a new conversation built with the defaults;
\* conversations changed after they were built (a message appended to the
\* list of a new conversation, other messages and title, tags set to None)
ConversationsOf(id) ==
    LET tested == Conversation(id, "Machine Learning Discussion", test_messages,
                               Now5, Now5, "educational", SomeTags(<<"ML", "AI">>),
                               "Discussion about ML", 2, 150)
        new == Conversation(id, "New Conversation", <<>>, Now0, Now0,
                            "general", NoTags, "", 0, 0)
    IN  {tested, new,
         [new EXCEPT !.messages = <<test_messages[1]>>, !.updated_at = NowUtc],
         [tested EXCEPT !.title = "ML", !.messages = <<test_messages[2]>>,
                        !.updated_at = NowUtc],
         [tested EXCEPT !.tags = NoTags]}

Conversations == UNION {ConversationsOf(id) : id \in ConversationIds}

SaveConversation(conversation, fault) ==
    LET done == save_conversation(conversations, conversation, fault)
    IN  /\ Idle
        /\ conversations' = done.rows
        /\ last' = [Call("save_conversation") EXCEPT
                      !.ret = done.ret, !.conversation = SomeConversation(conversation),
                      !.conversation_id = conversation.id]
        /\ UNCHANGED <<db_vars, chunk_hashes, messages, message_count, hist, callers,
                       settings>>

LoadConversation(conversation_id, fault) ==
    /\ Idle
    /\ last' = [Call("load_conversation") EXCEPT
                  !.conversation_id = conversation_id,
                  !.loaded = load_conversation(conversations, conversation_id, fault)]
    /\ UNCHANGED <<db_vars, app_vars>>

DeleteConversation(conversation_id, fault) ==
    LET done == delete_conversation(conversations, conversation_id, fault)
    IN  /\ Idle
        /\ conversations' = done.rows
        /\ last' = [Call("delete_conversation") EXCEPT
                      !.ret = done.ret, !.conversation_id = conversation_id]
        /\ UNCHANGED <<db_vars, chunk_hashes, messages, message_count, hist, callers,
                       settings>>

NextConversations ==
    \/ \E conversation \in Conversations, fault \in BOOLEAN :
          SaveConversation(conversation, fault)
    \/ \E conversation_id \in ConversationIds, fault \in BOOLEAN :
          LoadConversation(conversation_id, fault)
    \/ \E conversation_id \in ConversationIds, fault \in BOOLEAN :
          DeleteConversation(conversation_id, fault)
    \/ Return

SpecConversations == Init /\ [][NextConversations]_vars

\* ------------------------------------------------------- the chunk settings

\* rag_chatbot_app.py:559-583: a run of the script in which the number inputs
\* hold new_chunk_size and new_chunk_overlap. When one differs from the
\* session's value both keys are written and the DocumentProcessor is built
\* again; when its constructor raises, the run ends there and doc_processor
\* keeps the processor it had
ChunkSettingsChanged(new_chunk_size, new_chunk_overlap) ==
    LET default_chunk_size == settings._chunk_size
        default_overlap == settings._chunk_overlap
        built == DocumentProcessor(new_chunk_size, new_chunk_overlap)
    IN  /\ Idle
        /\ (new_chunk_size # default_chunk_size)
              \/ (new_chunk_overlap # default_overlap)
        /\ settings' =
              [_chunk_size |-> new_chunk_size,
               _chunk_overlap |-> new_chunk_overlap,
               doc_processor |->
                   IF built.raised THEN settings.doc_processor
                   ELSE [chunk_size |-> built.chunk_size,
                         chunk_overlap |-> built.chunk_overlap]]
        /\ last' = [Call("chunk_settings") EXCEPT
                      !.chunk_size = new_chunk_size,
                      !.chunk_overlap = new_chunk_overlap,
                      !.fault = IF built.raised THEN "ValueError" ELSE "none",
                      !.ret = ~built.raised]
        /\ UNCHANGED db_vars
        /\ UNCHANGED <<chunk_hashes, messages, message_count, hist, callers,
                       conversations>>

\* one widget event per run: the user changes the chunk size or the overlap
NextSettings ==
    \/ \E new_chunk_size \in ChunkSizes :
          ChunkSettingsChanged(new_chunk_size, settings._chunk_overlap)
    \/ \E new_chunk_overlap \in ChunkOverlaps :
          ChunkSettingsChanged(settings._chunk_size, new_chunk_overlap)
    \/ Return

SpecSettings == Init /\ [][NextSettings]_vars

\* ------------------------------------------------------------------ claims

\* the blocks get_relevant_context included for the call that just returned
Included == ContextParts(last.results, 1, <<>>, 0, last.max_context_length)

\* the collection's dimensionality admits the vectors of the live instance
DimensionFits ==
    Coll.dimension = 0 \/ Coll.dimension = Dimension(vector_db.embedding_model_name)

\* C1 (as claimed): the context of a non-empty result list is at most
\* max_context_length characters long, unless the top-1 block alone is longer,
\* and then it is the first max_context_length characters and the marker; with
\* two or more blocks included it is never longer and never carries the marker.
C1_ContextLengthBound ==
    (last.op = "get_relevant_context" /\ Len(last.results) > 0) =>
        /\ IF Len(Entry(last.results[1])) > last.max_context_length
           THEN last.context =
                   Slice(Entry(last.results[1]), 0, last.max_context_length)
                       \o TruncationMarker
           ELSE Len(last.context) <= last.max_context_length
        /\ Len(Included) >= 2 =>
              /\ Len(last.context) <= last.max_context_length
              /\ ~EndsWith(last.context, TruncationMarker)

\* the entries of the application's collection whose trimmed text is t
EntriesWithText(t) ==
    {i \in 1..Len(collections[AppName].entries) :
        Strip(collections[AppName].entries[i].document) = t}

\* C2 (as claimed): after upload batches whose add_documents calls all
\* succeeded, with restarts in between and no clear, the application's
\* collection holds exactly one entry for each distinct trimmed chunk text
\* that was submitted.
C2_OneEntryPerText ==
    (~hist.add_failed /\ ~hist.cleared) =>
        \A t \in hist.submitted : Cardinality(EntriesWithText(t)) = 1

\* C11 (as claimed): when the add_documents of an upload failed, processing the
\* same files again in the same session hands the same chunks to
\* add_documents again, so that an upload that then reports success has
\* stored them.
C11_RetryStoresChunks ==
    [][(Idle /\ last'.op = "process_documents" /\ last'.ret) =>
          \A t \in hist.failed \cap TrimmedTexts(last'.documents) :
              EntriesWithText(t)' # {}]_vars

\* C12 (as claimed): when sessions with separate hash sets upload chunks with
\* the same trimmed text into the same collection, however their metadata
\* scans and add_documents calls interleave, and nothing is cleared, at most
\* one entry with that text is stored.
C12_OneEntryAcrossSessions ==
    ~hist.cleared =>
        \A t \in hist.submitted : Cardinality(EntriesWithText(t)) <= 1

\* C13: clear_collection interleaved with add_documents of another caller on
\* the same collection: once a clear_collection has returned True no entry
\* that was present when it started is in the collection; the batch of an
\* add_documents is at every moment wholly present or wholly absent; an
\* add_documents that returns True has stored its whole batch, one that
\* returns False has stored nothing, and a clear_collection that returns
\* False has deleted nothing.
C13_ClearSafeUnderAdd ==
    [][\A p \in Callers :
          /\ (callers'[p].op = "clear_collection" /\ callers'[p].pc = "idle"
                  /\ callers'[p].ret) =>
                Ids(Coll)' \cap callers'[p].present = {}
          /\ \/ callers'[p].batch \subseteq Ids(Coll)'
             \/ callers'[p].batch \cap Ids(Coll)' = {}
          /\ (callers[p].pc = "scanned" /\ callers'[p].pc = "idle") =>
                IF callers'[p].ret
                THEN /\ Cardinality(Ids(Coll)' \ Ids(Coll))
                           = Len(callers[p].unique_docs)
                     /\ Len(callers[p].unique_docs) > 0 =>
                           callers'[p].batch = Ids(Coll)' \ Ids(Coll)
                ELSE collections' = collections
          /\ (callers[p].pc = "got" /\ callers'[p].pc = "idle"
                  /\ ~callers'[p].ret) =>
                collections' = collections]_vars

\* a batch of two added between the get and the delete of a clear_collection
\* that had an entry to delete: the clear has returned True, the entry is
\* gone and the batch is there
C13_Witness ==
    \E p, q \in Callers :
        /\ p # q
        /\ callers[p].op = "clear_collection" /\ callers[p].pc = "idle"
        /\ callers[p].ret /\ callers[p].present # {}
        /\ Cardinality(callers[q].batch) = 2
        /\ callers[q].batch = Ids(Coll)

\* C14: add_documents, clear_collection and delete_collection of an instance
\* leave every collection with another name, its entries and so its count, as
\* it was; the collections share one persist directory.
C14_OtherCollectionsUntouched ==
    [][(Idle /\ last'.op \in {"add_documents", "clear_collection",
                               "delete_collection"}) =>
          \A n \in CollectionNames \ {vector_db.collection_name} :
              collections'[n] = collections[n]]_vars

\* a collection deleted while the collection of the other name holds an entry
C14_Witness ==
    /\ last.op = "delete_collection" /\ last.ret
    /\ ~Coll.exists /\ uuids = 2
    /\ \E n \in CollectionNames \ {vector_db.collection_name} :
          collections[n].exists /\ Len(collections[n].entries) = 1

\* C15: an embedding or storage error inside similarity_search does not reach
\* the caller: similarity_search returns the empty list and
\* get_relevant_context the sentinel, on every store and for every query; a
\* chat turn in which the search, or the search inside get_relevant_context,
\* fails leaves the collections as they were and ends with the assistant's
\* answer appended to the messages.
C15_QueryFailureDegrades ==
    [][(Idle /\ last'.op = "respond" /\ last'.fault \in {"search", "context"}) =>
          /\ collections' = collections
          /\ last'.ret
          /\ messages' = Append(messages, messages'[Len(messages')])
          /\ messages'[Len(messages')].role = "assistant"
          /\ last'.fault = "search" => last'.results = <<>> /\ last'.sources = <<>>
          /\ (last'.fault = "context" /\ Len(last'.results) > 0) =>
                last'.context = NoDocuments
          /\ \A fault \in {"embedding", "storage"}, where \in Wheres :
                /\ similarity_search(vector_db, Coll, last'.query, last'.n_results,
                                     where, fault) = <<>>
                /\ get_relevant_context(vector_db, Coll, last'.query,
                       last'.n_results, last'.max_context_length, fault)
                      = NoDocuments]_vars

\* a turn whose first search found two chunks and whose second search, inside
\* get_relevant_context, failed: the answer is there, built on the sentinel
C15_Witness ==
    /\ last.op = "respond" /\ last.fault = "context" /\ last.ret
    /\ Len(last.results) = 2 /\ last.context = NoDocuments
    /\ messages[Len(messages)].role = "assistant"

\* C16 (as claimed): a similarity_search with a malformed where filter (here:
\* with nothing else wrong, on a collection that holds entries) ends in an
\* outcome that its caller can tell from that of a query that matched no
\* document, which is the empty list.
C16_MalformedWhereRejected ==
    (last.op = "similarity_search" /\ ~ValidWhere(last.where)
        /\ last.fault = "none" /\ last.n_results >= 1
        /\ DimensionFits /\ collection_count(Coll) > 0) =>
        last.results # <<>>

C18_BlankTextNoChunks ==
    (last.op = "chunk_text" /\ Strip(last.text) = "") =>
        last.documents = <<>> /\ last.split_calls = 0

\* a text of whitespace only, chunked with metadata None
C18_Witness ==
    /\ last.op = "chunk_text" /\ Len(last.text) >= 2 /\ Strip(last.text) = ""
    /\ last.metadata = NoMetadata
    /\ last.documents = <<>>

\* the keys of the metadata the caller passed to the chunk_text that returned
GivenKeys == IF last.metadata.none THEN {} ELSE DOMAIN last.metadata.dict

\* C19 (as claimed): the i-th document of chunk_text, counted from 0, has
\* chunk_index = i and chunk_size = the length of its page_content, and every
\* key of the caller's metadata with the caller's value.
C19_ChunkMetadataKeepsEveryKey ==
    (last.op = "chunk_text" /\ Strip(last.text) # "") =>
        \A i \in 1..Len(last.documents) :
            /\ last.documents[i].metadata["chunk_index"] = i - 1
            /\ last.documents[i].metadata["chunk_size"]
                  = Len(last.documents[i].page_content)
            /\ \A k \in GivenKeys :
                  last.documents[i].metadata[k] = last.metadata.dict[k]

\* C19 (amended): the i-th document of chunk_text, counted from 0, has
\* chunk_index = i and chunk_size = the length of its page_content, and every
\* key of the caller's metadata other than chunk_index and chunk_size with the
\* caller's value, and no other key; the chunk_index values are 0..n-1.
C19_ChunkMetadata ==
    (last.op = "chunk_text" /\ Strip(last.text) # "") =>
        \A i \in 1..Len(last.documents) :
            /\ last.documents[i].metadata["chunk_index"] = i - 1
            /\ last.documents[i].metadata["chunk_size"]
                  = Len(last.documents[i].page_content)
            /\ DOMAIN last.documents[i].metadata
                  = GivenKeys \cup {"chunk_index", "chunk_size"}
            /\ \A k \in GivenKeys \ {"chunk_index", "chunk_size"} :
                  last.documents[i].metadata[k] = last.metadata.dict[k]

\* three chunks of different lengths made with the metadata of an upload
C19_Witness ==
    /\ last.op = "chunk_text" /\ Len(last.documents) = 3
    /\ ~last.metadata.none /\ "source" \in DOMAIN last.metadata.dict
    /\ last.documents[3].metadata["source"] = "test.txt"
    /\ Len(last.documents[1].page_content) # Len(last.documents[2].page_content)

\* C20: with chunk_overlap < chunk_size every chunk of chunk_text has at most
\* chunk_size characters, and the splitting ends after descending the
\* separator list (paragraph break, line break, space, single characters) at
\* most once.
C20_ChunksWithinSize ==
    (last.op = "chunk_text" /\ last.chunk_overlap < last.chunk_size) =>
        /\ \A i \in 1..Len(last.documents) :
              Len(last.documents[i].page_content) <= last.chunk_size
        /\ Strip(last.text) # "" => last.depth \in 1..Len(Separators)

\* a text split at every level down to single characters, into chunks of
\* which one fills chunk_size
C20_Witness ==
    /\ last.op = "chunk_text" /\ last.chunk_overlap < last.chunk_size
    /\ last.depth = Len(Separators) /\ Len(last.documents) >= 2
    /\ last.chunk_size >= 2
    /\ \E i \in 1..Len(last.documents) :
          Len(last.documents[i].page_content) = last.chunk_size

\* C3 (as claimed): add_documents with an empty list reports success.
C3_EmptyAddReportsSuccess ==
    (last.op = "add_documents" /\ last.documents = <<>>) => last.ret

\* C3 (amended): add_documents with an empty list returns False and leaves every
\* collection, its entries and its count, as it was.
C3_EmptyAddIsNoOp ==
    [][(Idle /\ last'.op = "add_documents" /\ last'.documents = <<>>) =>
          (~last'.ret /\ collections' = collections /\ uuids' = uuids)]_vars

C3_Witness ==
    /\ last.op = "add_documents" /\ last.documents = <<>> /\ ~last.ret
    /\ Len(Coll.entries) > 0

\* C4: an add_documents call that returns False (embedding error, storage error
\* or dimensionality mismatch) leaves every collection as it was before the
\* call: no entry of the batch is stored and the count is unchanged.
C4_AddAllOrNothing ==
    [][(Idle /\ last'.op = "add_documents" /\ ~last'.ret) =>
          collections' = collections]_vars

\* a failed add of a non-empty batch whose vectors do not fit the collection
C4_Witness ==
    /\ last.op = "add_documents" /\ ~last.ret /\ last.fault = "none"
    /\ Len(last.documents) > 0
    /\ Coll.exists /\ ~DimensionFits /\ Len(Coll.entries) > 0

TurnBlocks ==
    IF Len(last.results) = 0 THEN <<>>
    ELSE ContextParts(
             similarity_search(vector_db, Coll, last.query, last.n_results, NoWhere,
                               "none"),
             1, <<>>, 0, last.max_context_length)

\* the labelled block that a citation stands for
BlockOf(item) ==
    Entry([document |-> item.preview,
           metadata |-> [source |-> item.source, chunk_index |-> item.chunk_index]])

\* C6 (as claimed): the sources attached to the assistant message of a chat
\* turn (here: one in which no call failed) are, in order, one item for each
\* block included in the context string; a result whose block was left out
\* because of max_context_length is not among them.
C6_SourcesAreIncludedBlocks ==
    (last.op = "respond" /\ last.ret /\ last.fault = "none") =>
        /\ messages[Len(messages)].sources = last.sources
        /\ Len(last.sources) = Len(TurnBlocks)
        /\ \A i \in 1..Len(last.sources) : BlockOf(last.sources[i]) = TurnBlocks[i]

C8_EmptyCollection ==
    (Coll.exists /\ collection_count(Coll) = 0) =>
        /\ last.op \in {"similarity_search", "get_relevant_context"} =>
              last.results = <<>>
        /\ last.op = "get_relevant_context" => last.context = NoDocuments

\* the sentinel, returned right after a clear that emptied the collection
C8_Witness ==
    /\ last.op = "get_relevant_context" /\ last.after_clear
    /\ last.fault = "none" /\ DimensionFits
    /\ uuids > 0 /\ collection_count(Coll) = 0
    /\ last.context = NoDocuments

\* C9: similarity_search(query, n_results = k) returns at most k rows and at
\* most as many as the collection holds, each the document, metadata and
\* distance of an entry of the collection, no entry twice, in non-decreasing
\* distance.
C9_SearchResults ==
    last.op = "similarity_search" =>
        /\ Len(last.results) <= last.n_results
        /\ Len(last.results) <= collection_count(Coll)
        /\ \E pos \in [1..Len(last.results) -> 1..Len(Coll.entries)] :
              /\ \A i, j \in DOMAIN pos : i # j => pos[i] # pos[j]
              /\ \A i \in DOMAIN pos :
                    /\ last.results[i].document = Coll.entries[pos[i]].document
                    /\ last.results[i].metadata = Coll.entries[pos[i]].metadata
                    /\ last.results[i].distance =
                          Distance(encode(vector_db.embedding_model_name, last.query),
                                   Coll.entries[pos[i]].embedding)
        /\ \A i \in 1..Len(last.results) - 1 :
              last.results[i].distance <= last.results[i + 1].distance

\* two of three entries returned, the nearer one first
C9_Witness ==
    /\ last.op = "similarity_search" /\ last.n_results = 2
    /\ collection_count(Coll) = 3 /\ Len(last.results) = 2
    /\ last.results[1].distance < last.results[2].distance

\* C10: when the search returned a result, the context begins with the labelled
\* block of the top-1 result, whole when it fits max_context_length, and else
\* cut to max_context_length characters and followed by the marker.
C10_TopOneFirst ==
    (last.op = "get_relevant_context" /\ Len(last.results) > 0) =>
        IF Len(Entry(last.results[1])) <= last.max_context_length
        THEN StartsWith(last.context, Entry(last.results[1]))
        ELSE last.context =
                Slice(Entry(last.results[1]), 0, last.max_context_length)
                    \o TruncationMarker

\* a top-1 block longer than the budget, with more results behind it
C10_Witness ==
    /\ last.op = "get_relevant_context" /\ Len(last.results) >= 2
    /\ Len(Entry(last.results[1])) > last.max_context_length
    /\ Len(last.context) = last.max_context_length + Len(TruncationMarker)

\* the text holds none of the separators "\n\n", "\n" and " "
NoSeparatorIn(text) ==
    \A k \in 1..Len(Separators) :
        Separators[k] # "" => Find(text, Separators[k], 1) = 0

\* C21 (as claimed): for a text longer than chunk_size C that holds none of the
\* separators (and no whitespace at its ends), and overlap O < C, chunk i of
\* chunk_text is the slice of the text from i*(C-O) of length C (shorter for
\* the last chunk), the last O characters of a chunk are the first O
\* characters of the next one, and the chunks cover the text.
C21_OverlappingSlices ==
    (/\ last.op = "chunk_text"
     /\ NoSeparatorIn(last.text) /\ Strip(last.text) = last.text
     /\ Len(last.text) > last.chunk_size
     /\ last.chunk_overlap < last.chunk_size) =>
        LET C == last.chunk_size
            O == last.chunk_overlap
            n == Len(last.documents)
            chunk(i) == last.documents[i + 1].page_content
        IN  /\ n >= 1
            /\ \A i \in 0..(n - 1) :
                  chunk(i) = Slice(last.text, i * (C - O), i * (C - O) + C)
            /\ \A i \in 0..(n - 2) :
                  /\ Len(chunk(i)) >= O /\ Len(chunk(i + 1)) >= O
                  /\ SubSeq(chunk(i), Len(chunk(i)) - O + 1, Len(chunk(i)))
                        = SubSeq(chunk(i + 1), 1, O)
            /\ (n - 1) * (C - O) + C >= Len(last.text)

\* C22 (as claimed): when the collection holds a chunk whose text is the query
\* text, a similarity_search with n_results >= 1 that meets no error returns
\* that chunk first, with the chunk's own metadata and a distance no greater
\* than that of any other result.
C22_VerbatimChunkFirst ==
    (/\ last.op = "similarity_search" /\ last.fault = "none"
     /\ last.where = NoWhere /\ last.n_results >= 1 /\ DimensionFits) =>
        \A e \in 1..Len(Coll.entries) :
            Coll.entries[e].document = last.query =>
                /\ Len(last.results) >= 1
                /\ last.results[1].document = last.query
                /\ last.results[1].metadata = Coll.entries[e].metadata
                /\ \A j \in 1..Len(last.results) :
                      last.results[1].distance <= last.results[j].distance

\* C22 (amended): when the collection holds a chunk whose text is the query
\* text, a similarity_search with n_results >= 1 and no filter that meets no
\* error returns a first result whose distance is that of the chunk and no
\* greater than that of any other result; the first result is that chunk, with
\* the chunk's own metadata, when no other entry has the chunk's embedding.
C22_VerbatimChunkNearest ==
    (/\ last.op = "similarity_search" /\ last.fault = "none"
     /\ last.where = NoWhere /\ last.n_results >= 1 /\ DimensionFits) =>
        \A e \in 1..Len(Coll.entries) :
            Coll.entries[e].document = last.query =>
                /\ Len(last.results) >= 1
                /\ last.results[1].distance
                      = Distance(encode(vector_db.embedding_model_name, last.query),
                                 Coll.entries[e].embedding)
                /\ \A j \in 1..Len(last.results) :
                      last.results[1].distance <= last.results[j].distance
                /\ (\A o \in 1..Len(Coll.entries) :
                       o # e => Coll.entries[o].embedding # Coll.entries[e].embedding)
                   => /\ last.results[1].document = last.query
                      /\ last.results[1].metadata = Coll.entries[e].metadata

\* the verbatim chunk was stored last of three entries with embeddings of their
\* own: it comes first of two results
C22_Witness ==
    /\ last.op = "similarity_search" /\ last.fault = "none"
    /\ last.where = NoWhere /\ last.n_results = 2 /\ DimensionFits
    /\ Len(Coll.entries) = 3 /\ Coll.entries[3].document = last.query
    /\ \A o \in 1..2 : Coll.entries[o].embedding # Coll.entries[3].embedding
    /\ Len(last.results) = 2
    /\ last.results[1].document = last.query
    /\ last.results[1].metadata = Coll.entries[3].metadata

\* C23 (as claimed): after "Reset Chat" the message limit is not reached, so
\* that the chat input is shown and a new prompt is accepted.
C23_ResetChatLiftsLimit ==
    last.op = "reset_chat" => ~(message_count >= message_limit)

\* C26 (as claimed): the session never counts more messages than message_limit.
C26_CountWithinLimit == message_count <= message_limit

\* C27 (as claimed): the chat history alternates user, assistant, beginning
\* with a user message: no user message is appended before the one before it
\* has its assistant message.
C27_HistoryAlternates ==
    \A i \in 1..Len(messages) :
        messages[i].role = (IF i % 2 = 1 THEN "user" ELSE "assistant")

\* load_conversation of the id of the call that just returned, with no error
LoadedNow == load_conversation(conversations, last.conversation_id, FALSE)

\* C24 (as claimed): after save_conversation(c) returned True, load_conversation
\* of c's id returns a conversation equal to c in every field; the table has at
\* most one row per id; after delete_conversation(id) returned True,
\* load_conversation(id) returns None.
C24_SaveLoadRoundTrip ==
    /\ (last.op = "save_conversation" /\ last.ret) => LoadedNow = last.conversation
    /\ \A i, j \in 1..Len(conversations) :
          conversations[i].id = conversations[j].id => i = j
    /\ (last.op = "delete_conversation" /\ last.ret) => LoadedNow = NoConversation

\* C25 (as claimed): within one session, when Clear Docs has just emptied the
\* collection, a "Process Documents" of chunks that the session processed
\* before (their hashes are in the session's set, no add_documents failed)
\* that reports success stores them again: every text has an entry and the
\* count is positive.
C25_ReuploadAfterClear ==
    [][(/\ Idle /\ last.after_clear /\ ~hist.add_failed
        /\ last'.op = "process_documents" /\ last'.ret
        /\ Len(last'.documents) > 0
        /\ \A t \in TrimmedTexts(last'.documents) : sha1(t) \in chunk_hashes) =>
          /\ collection_count(Coll)' > 0
          /\ \A t \in TrimmedTexts(last'.documents) : EntriesWithText(t)' # {}]_vars

\* C28: the context of get_relevant_context is made of the blocks of the first
\* k ranked results for one k >= 1: every block after the first up to k keeps
\* the running total of block lengths within max_context_length, block k + 1
\* (when there is one) would take it over, and no block after it is included,
\* whether it would fit or not.
C28_ContiguousPrefix ==
    (last.op = "get_relevant_context" /\ Len(last.results) > 0) =>
        LET n == Len(last.results)
            entry(i) == Entry(last.results[i])
            total(k) == SumSeq([i \in 1..k |-> Len(entry(i))])
            joined(k) == Join([i \in 1..k |-> entry(i)], Separator)
        IN  \E k \in 1..n :
                /\ \A j \in 2..k : total(j) <= last.max_context_length
                /\ k < n => total(k + 1) > last.max_context_length
                /\ last.context =
                      IF Len(joined(k)) > last.max_context_length
                      THEN Slice(joined(k), 0, last.max_context_length)
                               \o TruncationMarker
                      ELSE joined(k)

\* three results: the second block does not fit after the first, the third
\* would, and the context is the first block alone
C28_Witness ==
    /\ last.op = "get_relevant_context" /\ Len(last.results) = 3
    /\ Len(Entry(last.results[1])) + Len(Entry(last.results[2]))
          > last.max_context_length
    /\ Len(Entry(last.results[1])) + Len(Entry(last.results[3]))
          <= last.max_context_length
    /\ last.context = Entry(last.results[1])

\* C29: whenever the Chunk Settings expander builds the DocumentProcessor
\* again, the overlap it passes is strictly smaller than the chunk size.
C29_OverlapBelowSize ==
    last.op = "chunk_settings" => last.chunk_overlap < last.chunk_size

\* C30 (as claimed): a "Process Documents" whose non-empty chunks are all
\* duplicates, of the session's hash set or of a chunk_hash persisted in the
\* collection's metadata, reports success with 0 new chunks, does not call
\* add_documents (no uuid is drawn) and leaves the collection as it was; and in
\* every batch the chunks stored, the chunks skipped as duplicates and the
\* empty chunks add up to the chunks produced.
C30_DuplicateBatchAndTally ==
    [][(Idle /\ last'.op = "process_documents" /\ Len(last'.documents) > 0) =>
          LET documents == last'.documents
              known == chunk_hashes \cup existing_hashes(Coll, FALSE)
              stored == collection_count(Coll)' - collection_count(Coll)
              empty == Len(documents) - Len(NonBlank(documents))
          IN  /\ (\A t \in TrimmedTexts(documents) : sha1(t) \in known) =>
                    /\ last'.ret /\ last'.added = 0
                    /\ uuids' = uuids
                    /\ collections' = collections
              /\ stored + last'.skipped + empty = Len(documents)]_vars

====
